---- MODULE Spec2Model ----
(***************************************************************************)
(* Model of weather.py: a single-shot batch job that fetches a weather     *)
(* payload, projects it to a flat record, renders a dashboard image and    *)
(* pushes it to an e-paper panel.                                          *)
(*                                                                         *)
(* Representation choices                                                  *)
(*  - A number is a record [int, neg, h, ulps]: `int` tells a Python int   *)
(*    from a Python float (JSON 65 versus 65.0), `neg` is the sign (set    *)
(*    for -0.0 as well), `h` is the value in hundredths;                   *)
(*    a float is the IEEE double nearest to that decimal, and rounding and *)
(*    multiplication are done on the double.                               *)
(*  - A text is a sequence of one-character strings.                       *)
(*  - A dict is a function whose DOMAIN is the set of keys present.        *)
(*  - An optional value (None or a value) is <<>> or <<value>>.            *)
(***************************************************************************)
EXTENDS Integers, Sequences, FiniteSets, TLC

VARIABLES pc, http, raw_data, weather_data, black_image, red_image, buffers,
          log, hw, panel, exc, exitStatus, started, completed, assets

vars == <<pc, http, raw_data, weather_data, black_image, red_image, buffers,
          log, hw, panel, exc, exitStatus, started, completed, assets>>

(* ------------------------------ bounds --------------------------------- *)

\* Longest description text the provider returns in the model.
MaxDescLen == 3

\* Largest number of payload paths that are absent at once.
MaxMissing == 1

(* ------------------------- program constants --------------------------- *)

COLOR_BLACK == 0

COLOR_WHITE == 255

\* Image.new('1', (800, 480), COLOR_WHITE)
BlankWidth == 800

BlankHeight == 480

(* ------------------------------ numbers -------------------------------- *)

\* A number [int, neg, h, ulps]: a Python int n is h = 100 n; a Python float
\* is the double `ulps` representable steps away from the double nearest to
\* h / 100 (a parsed JSON real has ulps = 0). `neg` is the sign: n < 0 for an
\* int, the sign bit of the double for a float, which is set for -0.0 too.
Int_(n) == [int |-> TRUE, neg |-> n < 0, h |-> n * 100, ulps |-> 0]

Flt(hundredths) ==
    [int |-> FALSE, neg |-> hundredths < 0, h |-> hundredths, ulps |-> 0]

\* The JSON real -0.0.
NegZero == [int |-> FALSE, neg |-> TRUE, h |-> 0, ulps |-> 0]

Abs(n) == IF n < 0 THEN 0 - n ELSE n

RECURSIVE Log2(_)
Log2(n) == IF n < 2 THEN 0 ELSE 1 + Log2(n \div 2)

RECURSIVE ShiftUp(_, _)
ShiftUp(a, j) == IF 2 * a >= 100 THEN j ELSE ShiftUp(2 * a, j + 1)

\* Binary exponent e of a / 100, a > 0: 2^e <= a / 100 < 2^(e + 1).
Exponent(a) == IF a >= 100 THEN Log2(a \div 100) ELSE 0 - ShiftUp(a, 1)

\* 2^k for k in 0..10.
Pow2(k) == <<1, 2, 4, 8, 16, 32, 64, 128, 256, 512, 1024>>[k + 1]

\* 2^k modulo 200 for k >= 3, where the residues repeat with period 20.
Pow2Mod200(k) ==
    <<176, 152, 104, 8, 16, 32, 64, 128, 56, 112, 24, 48, 96, 192, 184, 168, 136, 72, 144, 88>>[(k % 20) + 1]

\* 100 M - a 2^k, where M is the 53-bit significand of the double nearest to
\* a / 100 and k = 52 - Exponent(a): the rounding error of the significand,
\* in hundredths of its last place (between -50 and 50).
SignificandError(a) ==
    IF a = 0 THEN 0
    ELSE LET n200 == ((a % 200) * Pow2Mod200(52 - Exponent(a))) % 200
             rho == n200 % 100
         IN  IF rho < 50 THEN 0 - rho
             ELSE IF rho > 50 THEN 100 - rho
             ELSE IF n200 = 50 THEN 0 - 50 ELSE 50

Sgn(n) == IF n < 0 THEN 0 - 1 ELSE IF n > 0 THEN 1 ELSE 0

\* Sign of (double nearest to a / 100) - a / 100.
BinaryDir(a) == Sgn(SignificandError(a))

\* n / d rounded to the nearest integer, ties to even (d > 0).
DivHalfEven(n, d) ==
    LET q == Abs(n) \div d
        r == Abs(n) % d
        m == IF 2 * r > d THEN q + 1
             ELSE IF 2 * r < d THEN q
             ELSE IF q % 2 = 0 THEN q ELSE q + 1
    IN  Sgn(n) * m

\* Whether n (at most 2047) is a power of two.
IsPow2(n) == n \in {1, 2, 4, 8, 16, 32, 64, 128, 256, 512, 1024}

\* daily['pop'] * 100 : int * int is an int; float * int is the double
\* nearest to (double of pop) * 100, which can lie off the decimal product.
\* The product keeps the sign of pop (-0.0 * 100 is -0.0); next to zero the
\* doubles are evenly spaced and the product of the steps is exact.
Mul100(x) ==
    IF x.int \/ x.h = 0
    THEN [int |-> x.int, neg |-> x.neg, h |-> x.h * 100, ulps |-> x.ulps * 100]
    ELSE LET a == Abs(x.h)
             err == SignificandError(a)
             below == err < 0 /\ IsPow2(a)
             shift == Exponent(100 * a) - Exponent(a) - (IF below THEN 1 ELSE 0)
         IN  [int |-> FALSE, neg |-> x.neg, h |-> x.h * 100,
              ulps |-> Sgn(x.h) * DivHalfEven(err, Pow2(shift))]

DigitChar(d) == <<"0", "1", "2", "3", "4", "5", "6", "7", "8", "9">>[d + 1]

RECURSIVE Digits(_)
Digits(n) == IF n < 10 THEN <<DigitChar(n)>>
             ELSE Digits(n \div 10) \o <<DigitChar(n % 10)>>

\* The format specs and str() print the sign of the number itself, so a
\* negative value that rounds to zero, and -0.0, are drawn with a minus.
Sign(x) == IF x.neg THEN <<"-">> ELSE <<>>

\* Round the double nearest to a / 100 (a >= 0) to a whole number of `unit`
\* hundredths. The exact binary value is rounded: a decimal tie goes the way
\* the double lies, and to even when the double is exactly the decimal.
RoundHalfEven(a, unit) ==
    LET q == a \div unit
        r == a % unit
    IN  IF 2 * r > unit THEN q + 1
        ELSE IF 2 * r < unit THEN q
        ELSE IF BinaryDir(a) > 0 THEN q + 1
        ELSE IF BinaryDir(a) < 0 THEN q
        ELSE IF q % 2 = 0 THEN q ELSE q + 1

\* Magnitude of x rounded to whole `unit` hundredths; a double off the
\* decimal grid (ulps # 0) is never a tie.
RoundMagnitude(x, unit) ==
    LET a == Abs(x.h)
        away == IF x.neg THEN 0 - x.ulps ELSE x.ulps
    IN  IF x.ulps = 0 \/ 2 * (a % unit) # unit THEN RoundHalfEven(a, unit)
        ELSE IF away > 0 THEN a \div unit + 1 ELSE a \div unit

\* format(x, '.0f')
Fmt0(x) == Sign(x) \o Digits(RoundMagnitude(x, 100))

\* format(x, '.1f')
Fmt1(x) ==
    LET t == RoundMagnitude(x, 10)
    IN  Sign(x) \o Digits(t \div 10) \o <<".">> \o <<DigitChar(t % 10)>>

\* format(x, '') = str(x) of a parsed value on the hundredths grid
\* (ulps = 0): an int prints its digits, a float its shortest repr, which
\* keeps at least one digit after the point.
Str(x) ==
    LET a == Abs(x.h)
        f == a % 100
    IN  IF x.int THEN Sign(x) \o Digits(a \div 100)
        ELSE Sign(x) \o Digits(a \div 100) \o <<".">> \o
             (IF f % 10 = 0 THEN <<DigitChar(f \div 10)>>
              ELSE <<DigitChar(f \div 10), DigitChar(f % 10)>>)

(* ------------------------------- texts --------------------------------- *)

LowerLetters == {"a", "b"}

UpperLetters == {"A", "B"}

Upper(c) == IF c = "a" THEN "A" ELSE IF c = "b" THEN "B" ELSE c

Lower(c) == IF c = "A" THEN "a" ELSE IF c = "B" THEN "b" ELSE c

\* str.title(): a cased character is upper-cased when the previous character
\* is uncased (or there is none) and lower-cased when it follows a cased one.
RECURSIVE TitleFrom(_, _, _)
TitleFrom(s, i, prevCased) ==
    IF i > Len(s) THEN <<>>
    ELSE LET c == s[i]
         IN  IF c \in LowerLetters
             THEN <<(IF prevCased THEN c ELSE Upper(c))>> \o TitleFrom(s, i + 1, TRUE)
             ELSE IF c \in UpperLetters
             THEN <<(IF prevCased THEN Lower(c) ELSE c)>> \o TitleFrom(s, i + 1, TRUE)
             ELSE <<c>> \o TitleFrom(s, i + 1, FALSE)

\* str.capitalize(): only the first character is upper-cased.
TitleCapitalizeOnly(s) ==
    [i \in 1..Len(s) |-> IF i = 1 THEN Upper(s[i]) ELSE Lower(s[i])]

Title(s) == TitleFrom(s, 1, FALSE)

(* ------------------------- provider payloads --------------------------- *)

\* The places of the payload the program reads; each can be absent.
PayloadPaths ==
    {"current", "current.temp", "current.feels_like", "current.humidity",
     "current.wind_speed", "current.weather", "current.weather[0]",
     "current.weather[0].description", "current.weather[0].icon",
     "daily", "daily[0]", "daily[0].temp", "daily[0].temp.max",
     "daily[0].temp.min", "daily[0].pop"}

\* The nine required leaf fields.
RequiredFields ==
    {"current.temp", "current.feels_like", "current.humidity",
     "current.wind_speed", "current.weather[0].description",
     "current.weather[0].icon", "daily[0].temp.max", "daily[0].temp.min",
     "daily[0].pop"}

\* Sample provider values.
Profiles ==
    { [temp |-> Flt(2160), feels_like |-> Flt(2050), humidity |-> Int_(65),
       wind_speed |-> Flt(342), icon |-> "01d",
       max |-> Flt(2350), min |-> Flt(1249), pop |-> Flt(17)],
      [temp |-> Flt(-40), feels_like |-> Flt(-350), humidity |-> Int_(100),
       wind_speed |-> Flt(25), icon |-> "13n",
       max |-> Int_(0), min |-> Flt(-1051), pop |-> Int_(0)],
      [temp |-> Int_(21), feels_like |-> Flt(2250), humidity |-> Flt(6550),
       wind_speed |-> Int_(12), icon |-> "10d",
       max |-> Flt(3000), min |-> Flt(250), pop |-> Flt(7)],
      [temp |-> Flt(9950), feels_like |-> Flt(50), humidity |-> Flt(4000),
       wind_speed |-> Flt(995), icon |-> "01d",
       max |-> Flt(708), min |-> NegZero, pop |-> Flt(29)],
      [temp |-> Flt(1850), feels_like |-> Flt(-750), humidity |-> Int_(7),
       wind_speed |-> Flt(5), icon |-> "50n",
       max |-> Int_(19), min |-> Flt(996), pop |-> Int_(1)] }

DescAlphabet == {"a", "B", " "}

Descriptions ==
    UNION { [1..n -> DescAlphabet] : n \in 0..MaxDescLen }

MissingSets ==
    { m \in SUBSET PayloadPaths : Cardinality(m) <= MaxMissing }

Keep(keys, prefix, miss) == { k \in keys : (prefix \o k) \notin miss }

\* The JSON body: the values of profile p and description d, without the
\* paths in miss.
BuildPayload(p, d, miss) ==
    LET weather0 ==
            [k \in Keep({"description", "icon"}, "current.weather[0].", miss) |->
                IF k = "description" THEN d ELSE p.icon]
        weather == IF "current.weather[0]" \in miss THEN <<>> ELSE <<weather0>>
        current ==
            [k \in Keep({"temp", "feels_like", "humidity", "wind_speed", "weather"},
                        "current.", miss) |->
                IF k = "weather" THEN weather ELSE p[k]]
        dtemp == [k \in Keep({"max", "min"}, "daily[0].temp.", miss) |-> p[k]]
        day == [k \in Keep({"temp", "pop"}, "daily[0].", miss) |->
                    IF k = "temp" THEN dtemp ELSE p.pop]
        daily == IF "daily[0]" \in miss THEN <<>> ELSE <<day>>
    IN  [k \in Keep({"current", "daily"}, "", miss) |->
            IF k = "current" THEN current ELSE daily]

\* Complete payloads carry every description; payloads with absent paths
\* carry the descriptions of at most one character.
Payloads ==
    { BuildPayload(p, d, {}) : p \in Profiles, d \in Descriptions }
    \cup { BuildPayload(p, d, m) :
              p \in Profiles, d \in { x \in Descriptions : Len(x) <= 1 },
              m \in MissingSets }

Has(dict, key) == key \in DOMAIN dict

\* Whether the payload holds the required field at `path`.
HasField(data, path) ==
    CASE path \in {"current.temp", "current.feels_like", "current.humidity",
                   "current.wind_speed"} ->
            /\ Has(data, "current")
            /\ \E k \in DOMAIN data["current"] : ("current." \o k) = path
      [] path \in {"current.weather[0].description", "current.weather[0].icon"} ->
            /\ Has(data, "current")
            /\ Has(data["current"], "weather")
            /\ data["current"]["weather"] # <<>>
            /\ \E k \in DOMAIN data["current"]["weather"][1] :
                    ("current.weather[0]." \o k) = path
      [] path \in {"daily[0].temp.max", "daily[0].temp.min"} ->
            /\ Has(data, "daily")
            /\ data["daily"] # <<>>
            /\ Has(data["daily"][1], "temp")
            /\ \E k \in DOMAIN data["daily"][1]["temp"] :
                    ("daily[0].temp." \o k) = path
      [] path = "daily[0].pop" ->
            /\ Has(data, "daily")
            /\ data["daily"] # <<>>
            /\ Has(data["daily"][1], "pop")

KeyError(key) == <<[exc |-> "KeyError", arg |-> key]>>

IndexError == <<[exc |-> "IndexError", arg |-> "list index out of range"]>>

\* The first lookup of process_weather_data that raises, in evaluation order;
\* <<>> when none does.
FirstLookupError(data) ==
    IF ~Has(data, "current") THEN KeyError("current")
    ELSE IF ~Has(data, "daily") THEN KeyError("daily")
    ELSE IF data["daily"] = <<>> THEN IndexError
    ELSE LET current == data["current"]
             daily == data["daily"][1]
         IN  IF ~Has(current, "temp") THEN KeyError("temp")
             ELSE IF ~Has(current, "feels_like") THEN KeyError("feels_like")
             ELSE IF ~Has(current, "humidity") THEN KeyError("humidity")
             ELSE IF ~Has(current, "wind_speed") THEN KeyError("wind_speed")
             ELSE IF ~Has(current, "weather") THEN KeyError("weather")
             ELSE IF current["weather"] = <<>> THEN IndexError
             ELSE IF ~Has(current["weather"][1], "description")
                  THEN KeyError("description")
             ELSE IF ~Has(current["weather"][1], "icon") THEN KeyError("icon")
             ELSE IF ~Has(daily, "temp") THEN KeyError("temp")
             ELSE IF ~Has(daily["temp"], "max") THEN KeyError("max")
             ELSE IF ~Has(daily["temp"], "min") THEN KeyError("min")
             ELSE IF ~Has(daily, "pop") THEN KeyError("pop")
             ELSE <<>>

\* The dict literal of process_weather_data, when every lookup succeeds.
Project(data) ==
    LET current == data["current"]
        daily == data["daily"][1]
    IN  [temp_current |-> current["temp"],
         feels_like |-> current["feels_like"],
         humidity |-> current["humidity"],
         wind |-> current["wind_speed"],
         report |-> Title(current["weather"][1]["description"]),
         icon_code |-> current["weather"][1]["icon"],
         temp_max |-> daily["temp"]["max"],
         temp_min |-> daily["temp"]["min"],
         precip_percent |-> Mul100(daily["pop"])]

\* A variant that reads pop with a default: daily.get('pop', 0) * 100.
ProcessDefaultingPop(data) ==
    LET err == FirstLookupError(data)
    IN  IF err = <<>> THEN [value |-> <<Project(data)>>, raised |-> <<>>]
        ELSE IF err = KeyError("pop")
        THEN LET current == data["current"]
                 daily == data["daily"][1]
             IN  [value |-> <<[temp_current |-> current["temp"],
                               feels_like |-> current["feels_like"],
                               humidity |-> current["humidity"],
                               wind |-> current["wind_speed"],
                               report |-> Title(current["weather"][1]["description"]),
                               icon_code |-> current["weather"][1]["icon"],
                               temp_max |-> daily["temp"]["max"],
                               temp_min |-> daily["temp"]["min"],
                               precip_percent |-> Int_(0)]>>,
                  raised |-> <<>>]
        ELSE [value |-> <<>>, raised |-> err]

\* The try body of process_weather_data: the record it returns, or the
\* exception it raises.
Process(data) ==
    LET err == FirstLookupError(data)
    IN  IF err = <<>> THEN [value |-> <<Project(data)>>, raised |-> <<>>]
        ELSE [value |-> <<>>, raised |-> err]

(* ------------------------------ renderer ------------------------------- *)

\* State of pic/template.png: absent, an 800x480 image, an image of another
\* size, or a file Image.open cannot read.
TemplateFiles == {"missing", "ok", "other_size", "unreadable"}

\* State of pic/icon/<icon_code>.png.
IconFiles == {"missing", "ok", "unreadable"}

\* Wall-clock readings <<hour, minute>> of datetime.now().
Times == {<<0, 5>>, <<23, 59>>}

\* strftime('%H') and '%M': two digits, zero padded.
Pad2(n) == IF n < 10 THEN <<"0">> \o Digits(n) ELSE Digits(n)

TimeText(now) == Pad2(now[1]) \o <<":">> \o Pad2(now[2])

Overlay(x, y, text, font, fill) ==
    [at |-> <<x, y>>, text |-> text, font |-> font, fill |-> fill]

\* The ten draw.text calls, in order.
TextOverlays(wd, now) ==
    << Overlay(30, 200, <<"N", "o", "w", ":", " ">> \o wd.report, 22, COLOR_BLACK),
       Overlay(30, 240, <<"P", "r", "e", "c", "i", "p", ":", " ">>
                        \o Fmt0(wd.precip_percent) \o <<"%">>, 30, COLOR_BLACK),
       Overlay(375, 35, Fmt0(wd.temp_current) \o <<"°", "C">>, 160, COLOR_BLACK),
       Overlay(350, 210, <<"F", "e", "e", "l", "s", " ", "l", "i", "k", "e", ":", " ">>
                         \o Fmt0(wd.feels_like) \o <<"°", "C">>, 50, COLOR_BLACK),
       Overlay(35, 325, <<"H", "i", "g", "h", ":", " ">>
                        \o Fmt0(wd.temp_max) \o <<"°", "C">>, 50, COLOR_BLACK),
       Overlay(35, 390, <<"L", "o", "w", ":", " ">>
                        \o Fmt0(wd.temp_min) \o <<"°", "C">>, 50, COLOR_BLACK),
       Overlay(345, 340, <<"H", "u", "m", "i", "d", "i", "t", "y", ":", " ">>
                         \o Str(wd.humidity) \o <<"%">>, 30, COLOR_BLACK),
       Overlay(345, 400, <<"W", "i", "n", "d", ":", " ">>
                         \o Fmt1(wd.wind) \o <<" ", "m", "/", "s">>, 30, COLOR_BLACK),
       Overlay(627, 330, <<"U", "P", "D", "A", "T", "E", "D">>, 35, COLOR_WHITE),
       Overlay(627, 375, TimeText(now), 60, COLOR_WHITE) >>

LogEntry(level, by) == [level |-> level, by |-> by]

TemplateWarning == LogEntry("WARNING", "generate_display_image: template.png not found")

IconWarning == LogEntry("WARNING", "generate_display_image: icon not found")

\* Size of the canvas the drawing starts from.
CanvasSize(template) ==
    IF template = "other_size" THEN <<640, 384>> ELSE <<BlankWidth, BlankHeight>>

\* A variant that opens the icon without testing that the file exists.
RenderIconRequired(wd, template, icon, now) ==
    LET warn1 == IF template = "missing" THEN <<TemplateWarning>> ELSE <<>>
    IN  IF template = "unreadable"
        THEN [image |-> <<>>, logged |-> <<>>, raised |-> TRUE]
        ELSE IF icon \in {"unreadable", "missing"}
        THEN [image |-> <<>>, logged |-> warn1, raised |-> TRUE]
        ELSE [image |-> <<[mode |-> "1",
                           size |-> CanvasSize(template),
                           base |-> IF template = "missing" THEN "blank" ELSE "template",
                           icon |-> <<[code |-> wd.icon_code, at |-> <<40, 15>>]>>,
                           texts |-> TextOverlays(wd, now)]>>,
              logged |-> warn1,
              raised |-> FALSE]

\* The try body of generate_display_image: the image it returns, the
\* warnings it logs, and whether it raises.
Render(wd, template, icon, now) ==
    LET warn1 == IF template = "missing" THEN <<TemplateWarning>> ELSE <<>>
        warn2 == IF icon = "missing" THEN <<IconWarning>> ELSE <<>>
    IN  IF template = "unreadable"
        THEN [image |-> <<>>, logged |-> <<>>, raised |-> TRUE]
        ELSE IF icon = "unreadable"
        THEN [image |-> <<>>, logged |-> warn1, raised |-> TRUE]
        ELSE [image |-> <<[mode |-> "1",
                           size |-> CanvasSize(template),
                           base |-> IF template = "missing" THEN "blank" ELSE "template",
                           icon |-> IF icon = "ok"
                                    THEN <<[code |-> wd.icon_code, at |-> <<40, 15>>]>>
                                    ELSE <<>>,
                           texts |-> TextOverlays(wd, now)]>>,
              logged |-> warn1 \o warn2,
              raised |-> FALSE]

(* ---------------------------- state machine ---------------------------- *)

Stages == <<"fetch_weather_data", "process_weather_data",
            "generate_display_image", "display_image">>

\* Failures requests.get / raise_for_status report, all RequestException.
FetchFailures == {"ConnectionError", "Timeout", "HTTPError"}

\* What response.json() raises on a success response whose body is not
\* JSON, after the success message was logged: requests.JSONDecodeError (a
\* RequestException, handled by the except clause) with requests >= 2.27, a
\* plain ValueError (not handled there) with older versions.
JsonFailures == {"JSONDecodeError", "ValueError"}

HardwareCommands == {"EPD", "init", "Clear", "getbuffer", "display", "sleep"}

Exception(stage, kind) == <<[stage |-> stage, kind |-> kind]>>

Init ==
    /\ pc = "load"
    /\ http = <<>>
    /\ raw_data = <<>>
    /\ weather_data = <<>>
    /\ black_image = <<>>
    /\ red_image = <<>>
    /\ buffers = <<>>
    /\ log = <<>>
    /\ hw = <<>>
    /\ panel = "Uninitialized"
    /\ exc = <<>>
    /\ exitStatus = <<>>
    /\ started = <<>>
    /\ completed = <<>>
    /\ assets = <<>>

\* Module level: without OPENWEATHER_API_KEY the import raises ValueError
\* before logging is configured and before main is called.
LoadModule ==
    /\ pc = "load"
    /\ \E apiKey \in BOOLEAN :
          IF apiKey
          THEN /\ pc' = "main"
               /\ UNCHANGED exitStatus
          ELSE /\ pc' = "exited"
               /\ exitStatus' = <<1>>
    /\ UNCHANGED <<http, raw_data, weather_data, black_image, red_image, buffers,
                   log, hw, panel, exc, started, completed, assets>>

MainStart ==
    /\ pc = "main"
    /\ log' = Append(log, LogEntry("INFO", "main: started"))
    /\ pc' = "fetch"
    /\ UNCHANGED <<http, raw_data, weather_data, black_image, red_image, buffers,
                   hw, panel, exc, exitStatus, started, completed, assets>>

\* A variant whose except clause logs and falls back to a stored payload.
FetchSwallowsError ==
    /\ pc = "fetch"
    /\ started' = Append(started, Stages[1])
    /\ \/ \E payload \in Payloads :
             /\ http' = <<"ok">>
             /\ raw_data' = <<payload>>
             /\ log' = Append(log, LogEntry("INFO", "fetch_weather_data"))
             /\ completed' = Append(completed, Stages[1])
             /\ pc' = "process"
       \/ \E kind \in FetchFailures, payload \in Payloads :
             /\ http' = <<kind>>
             /\ raw_data' = <<payload>>
             /\ log' = Append(log, LogEntry("ERROR", "fetch_weather_data"))
             /\ completed' = Append(completed, Stages[1])
             /\ pc' = "process"
    /\ UNCHANGED <<weather_data, black_image, red_image, buffers, hw, panel,
                   exc, exitStatus, assets>>

FetchWeatherData ==
    /\ pc = "fetch"
    /\ started' = Append(started, Stages[1])
    /\ \/ \E payload \in Payloads :
             /\ http' = <<"ok">>
             /\ raw_data' = <<payload>>
             /\ log' = Append(log, LogEntry("INFO", "fetch_weather_data"))
             /\ completed' = Append(completed, Stages[1])
             /\ pc' = "process"
             /\ UNCHANGED exc
       \/ \E kind \in FetchFailures :
             /\ http' = <<kind>>
             /\ log' = Append(log, LogEntry("ERROR", "fetch_weather_data"))
             /\ exc' = Exception(Stages[1], kind)
             /\ pc' = "except"
             /\ UNCHANGED <<raw_data, completed>>
       \/ \E kind \in JsonFailures :
             /\ http' = <<"not_json">>
             /\ log' = LET fetched == Append(log, LogEntry("INFO", "fetch_weather_data"))
                       IN  IF kind = "JSONDecodeError"
                           THEN Append(fetched, LogEntry("ERROR", "fetch_weather_data"))
                           ELSE fetched
             /\ exc' = Exception(Stages[1], kind)
             /\ pc' = "except"
             /\ UNCHANGED <<raw_data, completed>>
    /\ UNCHANGED <<weather_data, black_image, red_image, buffers, hw, panel,
                   exitStatus, assets>>

\* `except KeyError` logs and re-raises; any other exception leaves the
\* function without passing through the handler.
ProcessWeatherData ==
    /\ pc = "process"
    /\ started' = Append(started, Stages[2])
    /\ LET r == Process(raw_data[1])
       IN  IF r.raised = <<>>
           THEN /\ weather_data' = r.value
                /\ log' = Append(log, LogEntry("INFO", "process_weather_data"))
                /\ completed' = Append(completed, Stages[2])
                /\ pc' = "generate"
                /\ UNCHANGED exc
           ELSE /\ log' = IF r.raised[1].exc = "KeyError"
                          THEN Append(log, LogEntry("ERROR", "process_weather_data"))
                          ELSE log
                /\ exc' = Exception(Stages[2], r.raised[1].exc)
                /\ pc' = "except"
                /\ UNCHANGED <<weather_data, completed>>
    /\ UNCHANGED <<http, raw_data, black_image, red_image, buffers, hw, panel,
                   exitStatus, assets>>

GenerateDisplayImage ==
    /\ pc = "generate"
    /\ started' = Append(started, Stages[3])
    /\ \E template \in TemplateFiles, icon \in IconFiles, now \in Times :
          LET r == Render(weather_data[1], template, icon, now)
          IN  /\ assets' = <<[template |-> template, icon |-> icon, now |-> now]>>
              /\ IF r.raised
                 THEN /\ log' = Append(log \o r.logged,
                                       LogEntry("ERROR", "generate_display_image"))
                      /\ exc' = Exception(Stages[3], "Exception")
                      /\ pc' = "except"
                      /\ UNCHANGED <<black_image, completed>>
                 ELSE /\ black_image' = r.image
                      /\ log' = Append(log \o r.logged,
                                       LogEntry("INFO", "generate_display_image"))
                      /\ completed' = Append(completed, Stages[3])
                      /\ pc' = "epd_new"
                      /\ UNCHANGED exc
    /\ UNCHANGED <<http, raw_data, weather_data, red_image, buffers, hw, panel, exitStatus>>

(* ------------------------------ presenter ------------------------------ *)

\* A variant whose handler puts the panel to sleep before re-raising.
DisplayExceptWithSleep(issued, logged) ==
    /\ hw' = Append(issued, "sleep")
    /\ log' = Append(logged, LogEntry("ERROR", "display_image"))
    /\ exc' = Exception(Stages[4], "Exception")
    /\ pc' = "except"
    /\ UNCHANGED <<panel, red_image, buffers, completed>>

\* `except Exception` of display_image after a driver call raised: `issued`
\* is the command history including the failed call, `logged` the log so far.
DisplayExcept(issued, logged) ==
    /\ hw' = issued
    /\ log' = Append(logged, LogEntry("ERROR", "display_image"))
    /\ exc' = Exception(Stages[4], "Exception")
    /\ pc' = "except"
    /\ UNCHANGED <<panel, red_image, buffers, completed>>

\* logging.info("Initializing E-Paper display..."); epd = epd7in5b_V2.EPD()
EpdNew ==
    /\ pc = "epd_new"
    /\ started' = Append(started, Stages[4])
    /\ LET logged == Append(log, LogEntry("INFO", "display_image: initializing"))
       IN  \/ /\ hw' = Append(hw, "EPD")
              /\ log' = logged
              /\ pc' = "epd_init"
              /\ UNCHANGED <<panel, red_image, buffers, completed, exc>>
           \/ DisplayExcept(Append(hw, "EPD"), logged)
    /\ UNCHANGED <<http, raw_data, weather_data, black_image, exitStatus, assets>>

\* A variant that repeats a failed init once.
EpdInitWithRetry ==
    /\ pc = "epd_init"
    /\ \/ /\ hw' = Append(hw, "init")
          /\ panel' = "Initialized"
          /\ pc' = "epd_clear"
          /\ UNCHANGED <<log, red_image, buffers, completed, exc>>
       \/ /\ hw' = hw \o <<"init", "init">>
          /\ panel' = "Initialized"
          /\ pc' = "epd_clear"
          /\ UNCHANGED <<log, red_image, buffers, completed, exc>>
       \/ DisplayExcept(hw \o <<"init", "init">>, log)
    /\ UNCHANGED <<http, raw_data, weather_data, black_image, exitStatus, started, assets>>

\* epd.init()
EpdInit ==
    /\ pc = "epd_init"
    /\ \/ /\ hw' = Append(hw, "init")
          /\ panel' = "Initialized"
          /\ pc' = "epd_clear"
          /\ UNCHANGED <<log, red_image, buffers, completed, exc>>
       \/ DisplayExcept(Append(hw, "init"), log)
    /\ UNCHANGED <<http, raw_data, weather_data, black_image, exitStatus, started, assets>>

\* epd.Clear()
EpdClear ==
    /\ pc = "epd_clear"
    /\ \/ /\ hw' = Append(hw, "Clear")
          /\ panel' = "Cleared"
          /\ pc' = "red_image"
          /\ UNCHANGED <<log, red_image, buffers, completed, exc>>
       \/ DisplayExcept(Append(hw, "Clear"), log)
    /\ UNCHANGED <<http, raw_data, weather_data, black_image, exitStatus, started, assets>>

\* red_image = Image.new('1', (epd.width, epd.height), COLOR_WHITE);
\* logging.info("Sending image to screen ...")
NewRedImage ==
    /\ pc = "red_image"
    /\ red_image' = <<[mode |-> "1", size |-> <<"epd.width", "epd.height">>,
                       base |-> "blank", icon |-> <<>>, texts |-> <<>>]>>
    /\ log' = Append(log, LogEntry("INFO", "display_image: sending"))
    /\ pc' = "getbuffer_black"
    /\ UNCHANGED <<http, raw_data, weather_data, black_image, buffers, hw, panel, exc,
                   exitStatus, started, completed, assets>>

\* epd.getbuffer(black_image), the first argument of epd.display
GetBufferBlack ==
    /\ pc = "getbuffer_black"
    /\ \/ /\ hw' = Append(hw, "getbuffer")
          /\ buffers' = Append(buffers, [of |-> black_image[1]])
          /\ pc' = "getbuffer_red"
          /\ UNCHANGED <<log, panel, red_image, completed, exc>>
       \/ DisplayExcept(Append(hw, "getbuffer"), log)
    /\ UNCHANGED <<http, raw_data, weather_data, black_image, exitStatus, started, assets>>

\* epd.getbuffer(red_image), the second argument of epd.display
GetBufferRed ==
    /\ pc = "getbuffer_red"
    /\ \/ /\ hw' = Append(hw, "getbuffer")
          /\ buffers' = Append(buffers, [of |-> red_image[1]])
          /\ pc' = "epd_display"
          /\ UNCHANGED <<log, panel, red_image, completed, exc>>
       \/ DisplayExcept(Append(hw, "getbuffer"), log)
    /\ UNCHANGED <<http, raw_data, weather_data, black_image, exitStatus, started, assets>>

\* epd.display(<black buffer>, <red buffer>)
EpdDisplay ==
    /\ pc = "epd_display"
    /\ \/ /\ hw' = Append(hw, "display")
          /\ panel' = "ImageSent"
          /\ pc' = "epd_sleep"
          /\ UNCHANGED <<log, red_image, buffers, completed, exc>>
       \/ DisplayExcept(Append(hw, "display"), log)
    /\ UNCHANGED <<http, raw_data, weather_data, black_image, exitStatus, started, assets>>

\* A variant of display_image that returns after epd.display.
EpdSleepSkipped ==
    /\ pc = "epd_sleep"
    /\ completed' = Append(completed, Stages[4])
    /\ pc' = "finish"
    /\ UNCHANGED <<http, raw_data, weather_data, black_image, red_image, buffers, log,
                   hw, panel, exc, exitStatus, started, assets>>

\* logging.info("Putting display to sleep."); epd.sleep()
EpdSleep ==
    /\ pc = "epd_sleep"
    /\ LET logged == Append(log, LogEntry("INFO", "display_image: sleep"))
       IN  \/ /\ hw' = Append(hw, "sleep")
              /\ panel' = "Asleep"
              /\ log' = logged
              /\ completed' = Append(completed, Stages[4])
              /\ pc' = "finish"
              /\ UNCHANGED <<red_image, buffers, exc>>
           \/ DisplayExcept(Append(hw, "sleep"), logged)
    /\ UNCHANGED <<http, raw_data, weather_data, black_image, exitStatus, started, assets>>

(* -------------------------------- main --------------------------------- *)

\* main returns normally: the interpreter exits with status 0.
MainFinish ==
    /\ pc = "finish"
    /\ log' = Append(log, LogEntry("INFO", "main: finished"))
    /\ exitStatus' = <<0>>
    /\ pc' = "exited"
    /\ UNCHANGED <<http, raw_data, weather_data, black_image, red_image, buffers, hw,
                   panel, exc, started, completed, assets>>

\* A variant of the handler without sys.exit(1).
MainExceptNoExit ==
    /\ pc = "except"
    /\ log' = Append(log, LogEntry("ERROR", "main"))
    /\ exitStatus' = <<0>>
    /\ pc' = "exited"
    /\ UNCHANGED <<http, raw_data, weather_data, black_image, red_image, buffers, hw,
                   panel, exc, started, completed, assets>>

\* except Exception as e: logging.error(...); sys.exit(1)
MainExcept ==
    /\ pc = "except"
    /\ log' = Append(log, LogEntry("ERROR", "main"))
    /\ exitStatus' = <<1>>
    /\ pc' = "exited"
    /\ UNCHANGED <<http, raw_data, weather_data, black_image, red_image, buffers, hw,
                   panel, exc, started, completed, assets>>

Next ==
    \/ LoadModule
    \/ MainStart
    \/ FetchWeatherData
    \/ ProcessWeatherData
    \/ GenerateDisplayImage
    \/ EpdNew
    \/ EpdInit
    \/ EpdClear
    \/ NewRedImage
    \/ GetBufferBlack
    \/ GetBufferRed
    \/ EpdDisplay
    \/ EpdSleep
    \/ MainFinish
    \/ MainExcept

Spec == Init /\ [][Next]_vars

\* The script is one synchronous thread: it runs until it exits.
LiveSpec == Spec /\ WF_vars(Next)

(* ------------------------------ properties ----------------------------- *)

IsPrefix(s, t) == Len(s) <= Len(t) /\ \A i \in 1..Len(s) : s[i] = t[i]

Last(s) == s[Len(s)]

Logged(entry) == \E i \in 1..Len(log) : log[i] = entry

ErrorEntries == SelectSeq(log, LAMBDA e : e.level = "ERROR")

IsPanelCommand(c) == c \in {"init", "Clear", "display", "sleep"}

PanelCommands == SelectSeq(hw, IsPanelCommand)

PanelOrder == <<"init", "Clear", "display", "sleep">>

PanelRank(state) ==
    CASE state = "Uninitialized" -> 0
      [] state = "Initialized" -> 1
      [] state = "Cleared" -> 2
      [] state = "ImageSent" -> 3
      [] state = "Asleep" -> 4

Exited == pc = "exited"

FetchFailed == http # <<>> /\ http[1] # "ok"

StageFailed(stage) == exc # <<>> /\ exc[1].stage = stage

HasAllRequired(data) == \A f \in RequiredFields : HasField(data, f)

Letters == LowerLetters \cup UpperLetters

\* out is src with the first letter of every run of letters upper-cased and
\* the other letters lower-cased.
IsTitleCased(src, out) ==
    /\ Len(out) = Len(src)
    /\ \A i \in 1..Len(src) :
          out[i] = IF src[i] \notin Letters THEN src[i]
                   ELSE IF i > 1 /\ src[i - 1] \in Letters THEN Lower(src[i])
                   ELSE Upper(src[i])

\* Number of characters of text after its decimal point (0 without a point).
Decimals(text) ==
    IF \E i \in 1..Len(text) : text[i] = "."
    THEN Len(text) - (CHOOSE i \in 1..Len(text) : text[i] = ".")
    ELSE 0

\* The part of an overlay text between its label and its unit.
Between(text, label, unit) ==
    SubSeq(text, Len(label) + 1, Len(text) - Len(unit))

\* C1: whenever the fetch fails, no hardware command is ever issued and the
\* run ends with exit status 1 and a logged error; a transport error, a
\* timeout and an HTTP error status are logged by fetch_weather_data itself.
C1_FetchFailureExitsWithoutHardware ==
    /\ [](FetchFailed =>
            /\ hw = <<>>
            /\ completed = <<>>
            /\ http[1] \in FetchFailures => Logged(LogEntry("ERROR", "fetch_weather_data"))
            /\ Exited => (exitStatus = <<1>> /\ Logged(LogEntry("ERROR", "main"))))
    /\ (FetchFailed ~> (Exited /\ exitStatus = <<1>>))

C1_Witness ==
    /\ http = <<"Timeout">>
    /\ Exited
    /\ exitStatus = <<1>>
    /\ hw = <<>>

\* C2: a run that ends with exit status 0 issued sleep exactly once, after
\* display, as its last hardware command.
C2_SleepLastOnSuccess ==
    exitStatus = <<0>> =>
        /\ hw # <<>>
        /\ Last(hw) = "sleep"
        /\ \E i \in 1..(Len(hw) - 1) : hw[i] = "display"
        /\ \A i \in 1..(Len(hw) - 1) : hw[i] # "sleep"

C2_Witness ==
    /\ Exited
    /\ exitStatus = <<0>>
    /\ Last(hw) = "sleep"
    /\ panel = "Asleep"

\* C3: the stages start in the order fetch, project, render, present, each
\* at most once and only after every earlier one completed; the exit status
\* is 0 exactly when all four completed and 1 when one of them failed.
C3_ExitStatusAndStageOrder ==
    /\ IsPrefix(started, Stages)
    /\ IsPrefix(completed, started)
    /\ Len(started) <= Len(completed) + 1
    /\ (exitStatus = <<0>>) <=> (Exited /\ completed = Stages)
    /\ (Exited /\ exc # <<>>) => exitStatus = <<1>>
    /\ exc # <<>> => /\ exc[1].stage = Last(started)
                     /\ Len(completed) = Len(started) - 1
                     /\ pc \in {"except", "exited"}
    /\ Exited => exitStatus \in {<<0>>, <<1>>}

C3_Witness ==
    /\ Exited
    /\ exitStatus = <<1>>
    /\ StageFailed("generate_display_image")
    /\ completed = SubSeq(Stages, 1, 2)

\* C4: the commands issued to the panel are always a prefix of init, Clear,
\* display, sleep, and the panel state only ever advances by one step along
\* Uninitialized, Initialized, Cleared, ImageSent, Asleep.
C4_PanelCommandsLinear ==
    /\ [](/\ IsPrefix(PanelCommands, PanelOrder)
          /\ PanelRank(panel) <= Len(PanelCommands))
    /\ [][panel' # panel => PanelRank(panel') = PanelRank(panel) + 1]_vars

C4_Witness ==
    /\ Exited
    /\ exitStatus = <<1>>
    /\ PanelCommands = SubSeq(PanelOrder, 1, 3)
    /\ panel = "Cleared"

\* C5: every failing stage leaves exactly one stage-level error entry in the
\* log, followed by exactly one top-level error entry.
C5_StageThenTopLevelErrorLog ==
    (Exited /\ exc # <<>>) =>
        ErrorEntries = <<LogEntry("ERROR", exc[1].stage), LogEntry("ERROR", "main")>>

\* C6: a payload lacking a required field makes process_weather_data raise:
\* no record is produced, the exception is decided by the payload alone
\* (IndexError for an empty list, KeyError for an absent key), and neither
\* the Renderer nor the Presenter runs.
C6_MissingFieldFailsProjector ==
    (Len(started) >= 2 /\ ~HasAllRequired(raw_data[1])) =>
        LET d == raw_data[1]
            emptyList ==
                /\ Has(d, "current") /\ Has(d, "daily")
                /\ \/ d["daily"] = <<>>
                   \/ /\ {"temp", "feels_like", "humidity", "wind_speed", "weather"}
                            \subseteq DOMAIN d["current"]
                      /\ d["current"]["weather"] = <<>>
        IN  /\ weather_data = <<>>
            /\ black_image = <<>>
            /\ hw = <<>>
            /\ started = SubSeq(Stages, 1, 2)
            /\ completed = SubSeq(Stages, 1, 1)
            /\ StageFailed("process_weather_data")
            /\ exc[1].kind = IF emptyList THEN "IndexError" ELSE "KeyError"
            /\ Exited => exitStatus = <<1>>

C6_Witness ==
    /\ Exited
    /\ raw_data # <<>>
    /\ Has(raw_data[1], "daily")
    /\ raw_data[1]["daily"] = <<>>
    /\ exc = Exception("process_weather_data", "IndexError")
    /\ exitStatus = <<1>>

\* C7: a missing template, a missing icon, or both, never fail the run: the
\* Renderer logs a warning for each, draws all ten text overlays, returns an
\* image (800x480 and 1-bit on a blank canvas when the template is missing,
\* without an icon when the icon is missing) and the Presenter is started.
C7_SoftFailuresTolerated ==
    (/\ assets # <<>>
     /\ "missing" \in {assets[1].template, assets[1].icon}
     /\ "unreadable" \notin {assets[1].template, assets[1].icon}) =>
        /\ black_image # <<>>
        /\ ~StageFailed("generate_display_image")
        /\ ~Logged(LogEntry("ERROR", "generate_display_image"))
        /\ SubSeq(Stages, 1, 3) = SubSeq(completed, 1, 3)
        /\ pc # "except" => (pc = "epd_new" \/ Len(started) = 4)
        /\ StageFailed("display_image") \/ exc = <<>>
        /\ LET img == black_image[1]
               label(i) == SubSeq(img.texts[i].text, 1, 3)
           IN  /\ Len(img.texts) = 10
               /\ <<label(1), label(2), label(4), label(5), label(6), label(7), label(8)>>
                    = << <<"N", "o", "w">>, <<"P", "r", "e">>, <<"F", "e", "e">>,
                         <<"H", "i", "g">>, <<"L", "o", "w">>, <<"H", "u", "m">>,
                         <<"W", "i", "n">> >>
               /\ Last(img.texts[3].text) = "C"
               /\ img.texts[9].text = <<"U", "P", "D", "A", "T", "E", "D">>
               /\ img.texts[10].text = TimeText(assets[1].now)
               /\ \A i \in 1..10 : img.texts[i].text # <<>>
               /\ assets[1].template = "missing" =>
                    /\ img.size = <<800, 480>>
                    /\ img.mode = "1"
                    /\ img.base = "blank"
                    /\ Logged(TemplateWarning)
               /\ assets[1].icon = "missing" =>
                    /\ img.icon = <<>>
                    /\ Logged(IconWarning)

C7_Witness ==
    /\ assets # <<>>
    /\ assets[1].template = "missing"
    /\ assets[1].icon = "missing"
    /\ black_image # <<>>
    /\ hw = <<"EPD", "init">>

\* C8: for a payload with every required field, process_weather_data returns
\* a record of exactly nine fields: precip_percent is pop times 100 (an int
\* product exactly, a float product to within one unit in the last place), report
\* is the title-cased description, the other seven are the payload values.
C8_ProjectionOfValidPayload ==
    (Len(started) >= 2 /\ HasAllRequired(raw_data[1])) =>
        /\ weather_data # <<>>
        /\ LET current == raw_data[1]["current"]
               daily == raw_data[1]["daily"][1]
               w == weather_data[1]
           IN  /\ DOMAIN w = {"temp_current", "feels_like", "humidity", "wind", "report",
                              "icon_code", "temp_max", "temp_min", "precip_percent"}
               /\ w.precip_percent.h = 100 * daily["pop"].h
               /\ w.precip_percent.int = daily["pop"].int
               /\ w.precip_percent.neg = daily["pop"].neg
               /\ w.precip_percent.ulps \in -1..1
               /\ daily["pop"].int => w.precip_percent.ulps = 0
               /\ IsTitleCased(current["weather"][1]["description"], w.report)
               /\ w.temp_current = current["temp"]
               /\ w.feels_like = current["feels_like"]
               /\ w.humidity = current["humidity"]
               /\ w.wind = current["wind_speed"]
               /\ w.icon_code = current["weather"][1]["icon"]
               /\ w.temp_max = daily["temp"]["max"]
               /\ w.temp_min = daily["temp"]["min"]

C8_Witness ==
    /\ weather_data # <<>>
    /\ raw_data[1]["current"]["weather"][1]["description"] = <<"a", " ", "B">>
    /\ weather_data[1].report = <<"A", " ", "B">>
    /\ raw_data[1]["daily"][1]["pop"] = Flt(17)
    /\ weather_data[1].precip_percent = Flt(1700)

\* C9: every numeric overlay is drawn at its display precision: the four
\* temperatures, humidity and precipitation percent with 0 decimals, wind
\* with 1 decimal.
C9_DrawnAtDisplayPrecision ==
    black_image # <<>> =>
        LET t == black_image[1].texts
        IN  /\ Decimals(t[2].text) = 0
            /\ Decimals(t[3].text) = 0
            /\ Decimals(t[4].text) = 0
            /\ Decimals(t[5].text) = 0
            /\ Decimals(t[6].text) = 0
            /\ Decimals(Between(t[7].text, SubSeq(t[7].text, 1, 10), <<"%">>)) = 0
            /\ Decimals(Between(t[8].text, <<>>, <<" ", "m", "/", "s">>)) = 1

\* C10: sleep is only ever issued right after a display command that
\* completed; when a driver call fails after init succeeded and before
\* display completed, display_image logs the error, sleep is not issued, and
\* the process exits with status 1 with the panel initialized and not asleep.
C10_NoSleepAfterHardwareFailure ==
    /\ \A i \in 1..Len(hw) :
          hw[i] = "sleep" => /\ i > 1
                             /\ hw[i - 1] = "display"
                             /\ panel \in {"ImageSent", "Asleep"}
    /\ (StageFailed("display_image") /\ panel \in {"Initialized", "Cleared"}) =>
          /\ \A i \in 1..Len(hw) : hw[i] # "sleep"
          /\ Logged(LogEntry("ERROR", "display_image"))
          /\ Last(hw) \in {"Clear", "getbuffer", "display"}
          /\ Exited => exitStatus = <<1>>

C10_Witness ==
    /\ Exited
    /\ exitStatus = <<1>>
    /\ panel = "Cleared"
    /\ Last(hw) = "display"
    /\ StageFailed("display_image")

====
